---- MODULE Spec2Model ----
(***************************************************************************)
(* knomi: the ingest pipeline (scan -> dedup -> parse -> chunk -> embed -> *)
(* store), the embedding dispatch layer and the vector store adapter.      *)
(*                                                                         *)
(* Paths are the integers 1..NPaths (scan order = ascending path), a file  *)
(* content is an integer: -1 a file whose extractor raises, 0 a file whose *)
(* extracted text is empty, n > 0 a file whose text has n tokens.          *)
(***************************************************************************)
EXTENDS Integers, Sequences, FiniteSets, TLC

\* ------------------------------------------------------------------ bounds
NPaths == 2
MaxTokens == 2
MaxChunkSize == 1
MaxRuns == 2
HashLen == 2
MaxChunks == 4
MaxBatch == 2
MaxWorkers == 3
MaxUpserts == 2
MaxIndex == 1
MaxTextLen == 5
MaxSize == 3
MaxDim == 2
MaxIdLen == 2
MaxPointIndex == 10

VARIABLES
    dir,        \* the directory tree: path -> content, or NoFile
    config,     \* the Config object handed to run_pipeline
    points,     \* the collection: point id -> [payload fields, vector]
    run,        \* number of the current run_pipeline call
    pc,         \* position of run_pipeline
    err,        \* the step whose exception left run_pipeline, or "none"
    idx,        \* number of scanned files consumed from scan()
    result,     \* the PipelineResult of the current run
    text,       \* local: parse result
    chunks,     \* local: chunk result
    ops,        \* history: <<path, operation>> executed in this run
    hit,        \* history: paths whose has_document returned True in this run
    bucket,     \* history: path -> outcomes recorded for it in this run
    prev,       \* outcome of the previous run
    callback,   \* TRUE when run_pipeline was handed a progress_callback
    cb_calls,   \* history: the paths the callback was invoked for in this run
    deleted,    \* history: doc_id -> number of the run after which it was deleted
    flaky,      \* TRUE when the store's read calls may raise (server trouble)
    e_chunks,   \* embed_chunks: argument chunks
    e_bs,       \* embed_chunks: argument batch_size
    e_workers,  \* embed_chunks: argument workers
    e_pc,       \* embed_chunks: position
    e_futs,     \* embed_chunks: per batch "pending" | "running" | "done"
    e_res,      \* embed_chunks: per batch the vectors the backend returned
    e_order,    \* history: batch numbers in completion order
    e_out,      \* embed_chunks: return value
    e_calls,    \* history: the text lists handed to the backend's embed
    r_backend,  \* embed: the backend whose embed is called
    r_pc,       \* embed: position of the call
    r_outcomes, \* history: outcome of every attempt of the call
    r_waits,    \* history: the sleeps between the attempts
    r_exc,      \* embed: the exception that left the call, or None
    s_cs,       \* upsert: argument chunks of the last call
    s_vs,       \* upsert: argument vectors of the last call
    s_prev,     \* history: the collection before the last call
    s_n,        \* history: number of upsert calls
    s_err,      \* upsert: the last call raised
    s_pc,       \* QdrantStore: "new" before construction, then "ready"
    s_coll,     \* the vector dimension of the collection, None when absent
    s_dim,      \* QdrantStore: config.embedding_dim of the constructed store
    s_created,  \* history: number of create_collection calls
    c_text,     \* chunk: argument text
    c_size,     \* chunk: argument chunk_size
    c_overlap,  \* chunk: argument chunk_overlap
    c_pc,       \* chunk: position of the call
    c_out       \* chunk: return value

pvars == <<dir, config, points, run, pc, err, idx, result, text, chunks, ops, hit, bucket, prev,
           callback, cb_calls, deleted, flaky>>
evars == <<e_chunks, e_bs, e_workers, e_pc, e_futs, e_res, e_order, e_out, e_calls>>
rvars == <<r_backend, r_pc, r_outcomes, r_waits, r_exc>>
svars == <<s_cs, s_vs, s_prev, s_n, s_err, s_pc, s_coll, s_dim, s_created>>
cvars == <<c_text, c_size, c_overlap, c_pc, c_out>>
vars == <<dir, config, points, run, pc, err, idx, result, text, chunks, ops, hit, bucket, prev,
          callback, cb_calls, deleted, flaky,
          e_chunks, e_bs, e_workers, e_pc, e_futs, e_res, e_order, e_out, e_calls,
          r_backend, r_pc, r_outcomes, r_waits, r_exc,
          s_cs, s_vs, s_prev, s_n, s_err, s_pc, s_coll, s_dim, s_created,
          c_text, c_size, c_overlap, c_pc, c_out>>

\* ------------------------------------------------------------- primitives
None == 0
NoFile == -2
Paths == 1..NPaths
OldPath == NPaths + 1
Contents == (-1)..MaxTokens

Min(a, b) == IF a < b THEN a ELSE b

RECURSIVE Flatten(_)
Flatten(ss) == IF ss = <<>> THEN <<>> ELSE Head(ss) \o Flatten(Tail(ss))

RECURSIVE Count(_, _)
Count(s, x) ==
    IF s = <<>> THEN 0 ELSE (IF Head(s) = x THEN 1 ELSE 0) + Count(Tail(s), x)

\* str(n) for n >= 0, as a sequence of decimal digits
RECURSIVE Str(_)
Str(n) == IF n < 10 THEN <<n>> ELSE Str(n \div 10) \o <<n % 10>>

\* fixed-width digits of n, least significant last
RECURSIVE Digits(_, _)
Digits(n, w) == IF w = 0 THEN <<>> ELSE Digits(n \div 10, w - 1) \o <<n % 10>>

\* ---------------------------------------------------------------- config
\* The settings Config declares (pydantic fields); reading any other
\* attribute of a Config raises AttributeError.
ConfigFields ==
    {"source_dir", "chunk_size", "chunk_overlap", "embedding_model", "embedding_dim",
     "embedding_batch_size", "db_url", "collection", "serve_host", "serve_port", "top_k"}

HasAttr(name) == name \in ConfigFields

\* the keyword arguments Config(...) is called with
ConfigArgs ==
    { a \in [chunk_size : 0..MaxChunkSize, chunk_overlap : (-1)..MaxChunkSize,
             embedding_model : {"text-embedding-3-small", "all-MiniLM-L6-v2"},
             embedding_batch_size : {MaxBatch}] :
        a.chunk_overlap <= a.chunk_size }

\* the constraints of the fields (gt=0, ge=0, gt=0): when one fails,
\* Config(...) raises ValidationError; nothing relates chunk_overlap to
\* chunk_size
ConfigValid(a) ==
    /\ a.chunk_size > 0
    /\ a.chunk_overlap >= 0
    /\ a.embedding_batch_size > 0

\* the Config objects that construction yields
ConfigObjects == { a \in ConfigArgs : ConfigValid(a) }

\* build_embedder: the model name selects the backend
IsRemoteModel(m) == m \in {"text-embedding-3-small", "text-embedding-3-large"}

\* build_embedder(config): "ok", or the AttributeError of reading
\* config.openai_api_key for the remote backend
BuildEmbedder(cfg) ==
    IF IsRemoteModel(cfg.embedding_model) /\ ~HasAttr("openai_api_key")
    THEN "AttributeError" ELSE "ok"

\* --------------------------------------------------------------- scanner
\* hex digest of the file's bytes: fixed length, one per content
Sha256(c) == Digits(c + 1, HashLen)

RECURSIVE ScanFrom(_, _)
ScanFrom(d, p) ==
    IF p > NPaths THEN <<>>
    ELSE (IF d[p] = NoFile THEN <<>> ELSE <<[path |-> p, sha256 |-> Sha256(d[p])]>>)
         \o ScanFrom(d, p + 1)

\* mutant: the files are yielded in descending path order
ScanDescending(d) ==
    [i \in 1..Len(ScanFrom(d, 1)) |-> ScanFrom(d, 1)[Len(ScanFrom(d, 1)) + 1 - i]]

\* scan(root): the matching files in ascending path order
Scan(d) == ScanFrom(d, 1)

\* ---------------------------------------------------------------- parser
ParseRaises(c) == c = -1

\* the normalised text of a file: a sequence of words, empty for content 0
ParseText(c) == [i \in 1..c |-> i]

\* --------------------------------------------------------------- chunker
\* the tokeniser: one token per word
Encode(t) == [i \in 1..Len(t) |-> <<"tok", t[i]>>]
Decode(w) == [i \in 1..Len(w) |-> w[i][2]]

\* mutant: the loop ends with the first window that reaches the last token
RECURSIVE WindowsFromUntilEnd(_, _, _, _)
WindowsFromUntilEnd(tokens, i, size, step) ==
    IF i >= Len(tokens) THEN <<>>
    ELSE <<SubSeq(tokens, i + 1, Min(i + size, Len(tokens)))>>
         \o (IF i + size >= Len(tokens) THEN <<>>
             ELSE WindowsFromUntilEnd(tokens, i + step, size, step))

\* mutant: the loop runs only while a full window is left
RECURSIVE WindowsFromFullOnly(_, _, _, _)
WindowsFromFullOnly(tokens, i, size, step) ==
    IF i + size > Len(tokens) THEN <<>>
    ELSE <<SubSeq(tokens, i + 1, i + size)>>
         \o WindowsFromFullOnly(tokens, i + step, size, step)

\* mutant: the slice ends one token early
RECURSIVE WindowsFromShort(_, _, _, _)
WindowsFromShort(tokens, i, size, step) ==
    IF i >= Len(tokens) THEN <<>>
    ELSE <<SubSeq(tokens, i + 1, Min(i + size - 1, Len(tokens)))>>
         \o WindowsFromShort(tokens, i + step, size, step)

\* lines 75-79: the windows cut from position i on
RECURSIVE WindowsFrom(_, _, _, _)
WindowsFrom(tokens, i, size, step) ==
    IF i >= Len(tokens) THEN <<>>
    ELSE <<SubSeq(tokens, i + 1, Min(i + size, Len(tokens)))>>
         \o WindowsFrom(tokens, i + step, size, step)

\* the while loop of chunk never ends when the step is not positive
ChunkDiverges(t, size, overlap) == Len(Encode(t)) > size /\ size - overlap <= 0

\* mutant: chunk_index counts from one
ChunkOneBased(t, source, doc_id, size, overlap) ==
    IF t = <<>> THEN <<>>
    ELSE IF Len(Encode(t)) <= size
    THEN << [text |-> t, source |-> source, doc_id |-> doc_id,
             chunk_index |-> 1, total_chunks |-> 1] >>
    ELSE LET windows == WindowsFrom(Encode(t), 0, size, size - overlap)
         IN [k \in 1..Len(windows) |->
                [text |-> Decode(windows[k]), source |-> source, doc_id |-> doc_id,
                 chunk_index |-> k, total_chunks |-> Len(windows)]]

\* mutant: a text of exactly chunk_size tokens goes through the window loop
\* (with a step of at least one token)
ChunkStrictBoundary(t, source, doc_id, size, overlap) ==
    IF t = <<>> THEN <<>>
    ELSE IF Len(Encode(t)) < size
    THEN << [text |-> t, source |-> source, doc_id |-> doc_id,
             chunk_index |-> 0, total_chunks |-> 1] >>
    ELSE LET windows == WindowsFrom(Encode(t), 0, size,
                                    IF size > overlap THEN size - overlap ELSE 1)
         IN [k \in 1..Len(windows) |->
                [text |-> Decode(windows[k]), source |-> source, doc_id |-> doc_id,
                 chunk_index |-> k - 1, total_chunks |-> Len(windows)]]

\* chunk(text, source, doc_id, chunk_size, chunk_overlap), when it returns
Chunk(t, source, doc_id, size, overlap) ==
    IF t = <<>> THEN <<>>
    ELSE IF Len(Encode(t)) <= size
    THEN << [text |-> t, source |-> source, doc_id |-> doc_id,
             chunk_index |-> 0, total_chunks |-> 1] >>
    ELSE LET windows == WindowsFrom(Encode(t), 0, size, size - overlap)
         IN [k \in 1..Len(windows) |->
                [text |-> Decode(windows[k]), source |-> source, doc_id |-> doc_id,
                 chunk_index |-> k - 1, total_chunks |-> Len(windows)]]

\* -------------------------------------------------------------- embedder
\* the backend's vector for one text
Vec(t) == [embedding_of |-> t]

\* embed(texts): one vector per text, same order
Embed(texts) == [i \in 1..Len(texts) |-> Vec(texts[i])]

\* mutant: only the full batches are cut, the remainder is dropped
BatchesFullOnly(cs, bs) ==
    [j \in 1..(Len(cs) \div bs) |-> SubSeq(cs, (j - 1) * bs + 1, j * bs)]

\* consecutive slices of at most bs chunks
Batches(cs, bs) ==
    [j \in 1..((Len(cs) + bs - 1) \div bs) |->
        SubSeq(cs, (j - 1) * bs + 1, Min(j * bs, Len(cs)))]

\* line 81: the texts of one batch, in batch order
Texts(batch) == [i \in 1..Len(batch) |-> batch[i].text]

EmbedBatch(batch) == Embed(Texts(batch))

\* ----------------------------------------------------------------- store
\* the name hashed into the point's uuid5: doc_id + str(chunk_index)
\* mutant: the chunk index does not enter the identifier
PointIdOfDocument(c) == c.doc_id

PointId(c) == c.doc_id \o Str(c.chunk_index)

\* mutant: a point whose id is already stored is left as it is
UpsertKeepOld(pts, cs, vs) ==
    LET ids == {PointId(cs[i]) : i \in 1..Len(cs)}
        first(p) == CHOOSE i \in 1..Len(cs) : PointId(cs[i]) = p
    IN [p \in DOMAIN pts \cup ids |->
          IF p \in DOMAIN pts THEN pts[p]
          ELSE [doc_id |-> cs[first(p)].doc_id, chunk_index |-> cs[first(p)].chunk_index,
                total_chunks |-> cs[first(p)].total_chunks, source |-> cs[first(p)].source,
                text |-> cs[first(p)].text, vector |-> vs[first(p)]]]

\* upsert(chunks, vectors): zip(strict=True), later points of one call win
Upsert(pts, cs, vs) ==
    LET ids == {PointId(cs[i]) : i \in 1..Len(cs)}
        last(p) == CHOOSE i \in 1..Len(cs) :
                      /\ PointId(cs[i]) = p
                      /\ \A j \in 1..Len(cs) : PointId(cs[j]) = p => j <= i
    IN [p \in DOMAIN pts \cup ids |->
          IF p \in ids
          THEN [doc_id |-> cs[last(p)].doc_id, chunk_index |-> cs[last(p)].chunk_index,
                total_chunks |-> cs[last(p)].total_chunks, source |-> cs[last(p)].source,
                text |-> cs[last(p)].text, vector |-> vs[last(p)]]
          ELSE pts[p]]

HasDocument(pts, d) == \E p \in DOMAIN pts : pts[p].doc_id = d

\* delete(doc_id): every point whose payload carries the doc_id is removed
Delete(pts, d) == [p \in {q \in DOMAIN pts : pts[q].doc_id # d} |-> pts[p]]

\* get_source: the source of one matching point (scroll, limit=1), or None
GetSource(pts, d) ==
    IF ~HasDocument(pts, d) THEN {None}
    ELSE {pts[p].source : p \in {q \in DOMAIN pts : pts[q].doc_id = d}}

\* mutant: the points of the document are removed, all but the first, which
\* gets the new source
UpdateSourceDropsRest(pts, d, s) ==
    [p \in {q \in DOMAIN pts : pts[q].doc_id # d \/ pts[q].chunk_index = 0} |->
        IF pts[p].doc_id = d THEN [pts[p] EXCEPT !.source = s] ELSE pts[p]]

\* mutant: only the first chunk of the document is rewritten
UpdateSourceFirstChunk(pts, d, s) ==
    [p \in DOMAIN pts |->
        IF pts[p].doc_id = d /\ pts[p].chunk_index = 0
        THEN [pts[p] EXCEPT !.source = s] ELSE pts[p]]

\* update_source: set_payload on every point of the document
UpdateSource(pts, d, s) ==
    [p \in DOMAIN pts |-> IF pts[p].doc_id = d THEN [pts[p] EXCEPT !.source = s] ELSE pts[p]]

\* -------------------------------------------------------------- pipeline
PipelineResult ==
    [total_files |-> 0, skipped_files |-> 0, moved_files |-> 0, failed_files |-> <<>>,
     total_chunks |-> 0, total_vectors |-> 0]

\* the ScannedFile of the current loop iteration
Cur == Scan(dir)[idx]

\* line 69: the stored source is set and differs from the scanned path
IsMoved(stored, path) == stored # None /\ stored # path

\* mutant: the move branch continues without counting the skip
CountSkipUnmovedOnly(r, moved) ==
    IF moved THEN [r EXCEPT !.moved_files = @ + 1] ELSE [r EXCEPT !.skipped_files = @ + 1]

\* lines 76 and 79: a moved file counts as moved and as skipped
CountSkip(r, moved) ==
    [r EXCEPT !.moved_files = IF moved THEN @ + 1 ELSE @, !.skipped_files = @ + 1]

\* mutant: the continue of line 80 is missing
AfterSkipFallsThrough == "parse"

\* line 80: continue with the next scanned file
AfterSkip == "scan"

\* mutant: the failure is logged but not recorded
CountFailedDropped(r, path) == r

\* lines 86 and 91: the path joins failed_files
CountFailed(r, path) == [r EXCEPT !.failed_files = Append(@, path)]

\* mutant: the continue of line 92 is missing
AfterFailedFallsThrough == "chunk"

\* lines 87 and 92: continue with the next scanned file
AfterFailed == "scan"

\* lines 107-108: the running sums
CountIndexed(r, cs, vs) ==
    [r EXCEPT !.total_chunks = @ + Len(cs), !.total_vectors = @ + Len(vs)]

\* mutant: the exception is caught and the loop goes on
AfterEmbedErrorContinue == "scan"

\* mutant: the exception is caught and the file recorded as failed
OnEmbedErrorRecorded(r, path) == [r EXCEPT !.failed_files = Append(@, path)]

\* an exception leaves the call statement of lines 101-105: there is no
\* handler, so the run ends there and the result is not touched
AfterEmbedError == "aborted"

OnEmbedError(r, path) == r

\* what the history records for the file of this iteration
Recorded(r, rnew, indexed) ==
    (IF rnew.skipped_files > r.skipped_files THEN {"skipped"} ELSE {})
    \cup (IF rnew.moved_files > r.moved_files THEN {"moved"} ELSE {})
    \cup (IF Len(rnew.failed_files) > Len(r.failed_files) THEN {"failed"} ELSE {})
    \cup (IF indexed THEN {"succeeded"} ELSE {})

NoBuckets == [p \in Paths |-> {}]

\* lines 55-59: the result, the store and the embedder are constructed
StartRun ==
    /\ pc = "idle"
    /\ result' = PipelineResult
    /\ IF BuildEmbedder(config) = "ok"
       THEN pc' = "scan" /\ err' = "none"
       ELSE pc' = "aborted" /\ err' = "build"
    /\ UNCHANGED <<dir, config, points, run, idx, text, chunks, ops, hit, bucket, prev>>
    /\ UNCHANGED <<callback, cb_calls, deleted, flaky>>
    /\ UNCHANGED <<evars, rvars, svars, cvars>>

\* what a progress callback may return
CallbackReturns == {"None", "True"}

\* mutant: a true return value of the callback skips the file
AfterProgressUsesReturn(ret) == IF ret = "True" THEN "scan" ELSE "dedup"

\* line 65: the callback's return value is dropped
AfterProgress(ret) == "dedup"

\* lines 61-65: the next ScannedFile is taken from scan() and counted; the
\* progress callback, when there is one, is invoked with the file's name
NextFile ==
    /\ pc = "scan"
    /\ idx < Len(Scan(dir))
    /\ idx' = idx + 1
    /\ result' = [result EXCEPT !.total_files = @ + 1]
    /\ IF callback
       THEN \E ret \in CallbackReturns :
              /\ cb_calls' = Append(cb_calls, Scan(dir)[idx + 1].path)
              /\ pc' = AfterProgress(ret)
       ELSE /\ pc' = "dedup"
            /\ UNCHANGED cb_calls
    /\ UNCHANGED <<dir, config, points, run, err, text, chunks, ops, hit, bucket, prev>>
    /\ UNCHANGED <<callback, deleted, flaky>>
    /\ UNCHANGED <<evars, rvars, svars, cvars>>

\* lines 111-119: scan() is exhausted, the result is returned
Finish ==
    /\ pc = "scan"
    /\ idx = Len(Scan(dir))
    /\ pc' = "done"
    /\ UNCHANGED <<dir, config, points, run, err, idx, result, text, chunks, ops, hit,
                   bucket, prev>>
    /\ UNCHANGED <<callback, cb_calls, deleted, flaky>>
    /\ UNCHANGED <<evars, rvars, svars, cvars>>

\* mutant: a failed read counts as "not indexed" and the file goes on
AfterReadErrorParse == "parse"

\* lines 67-68: has_document and get_source are called outside any try
\* block, so their exception leaves run_pipeline
AfterReadError == "aborted"

\* what a read call of the store may do: return, or raise when the server
\* is in trouble
ReadRaises == IF flaky THEN BOOLEAN ELSE {FALSE}

\* lines 67-80: the dedup check; a file whose hash is stored is skipped, and
\* its stored source is rewritten when it differs from the scanned path
Dedup ==
    /\ pc = "dedup"
    /\ \E hd_raises \in ReadRaises :
         IF hd_raises
         THEN /\ ops' = ops \cup {<<Cur.path, "has_document">>}
              /\ pc' = AfterReadError
              /\ err' = "dedup"
              /\ UNCHANGED <<points, result, hit, bucket>>
         ELSE IF HasDocument(points, Cur.sha256)
         THEN \E gs_raises \in ReadRaises :
              IF gs_raises
              THEN /\ ops' = ops \cup {<<Cur.path, "has_document">>, <<Cur.path, "get_source">>}
                   /\ pc' = AfterReadError
                   /\ err' = "dedup"
                   /\ UNCHANGED <<points, result, hit, bucket>>
              ELSE \E stored \in GetSource(points, Cur.sha256) :
                     /\ points' = IF IsMoved(stored, Cur.path)
                                  THEN UpdateSource(points, Cur.sha256, Cur.path)
                                  ELSE points
                     /\ result' = CountSkip(result, IsMoved(stored, Cur.path))
                     /\ ops' = ops \cup {<<Cur.path, "has_document">>, <<Cur.path, "get_source">>}
                                   \cup (IF IsMoved(stored, Cur.path)
                                         THEN {<<Cur.path, "update_source">>} ELSE {})
                     /\ hit' = hit \cup {Cur.path}
                     /\ bucket' = [bucket EXCEPT ![Cur.path] =
                                      @ \cup Recorded(result, result', FALSE)]
                     /\ pc' = AfterSkip
                     /\ UNCHANGED err
         ELSE /\ ops' = ops \cup {<<Cur.path, "has_document">>}
              /\ pc' = "parse"
              /\ UNCHANGED <<points, result, hit, bucket, err>>
    /\ UNCHANGED <<dir, config, run, idx, text, chunks, prev>>
    /\ UNCHANGED <<callback, cb_calls, deleted, flaky>>
    /\ UNCHANGED <<evars, rvars, svars, cvars>>

\* lines 82-92: parse; an exception or an empty text fails the file
Parse ==
    /\ pc = "parse"
    /\ ops' = ops \cup {<<Cur.path, "parse">>}
    /\ IF ParseRaises(dir[Cur.path]) \/ ParseText(dir[Cur.path]) = <<>>
       THEN /\ result' = CountFailed(result, Cur.path)
            /\ bucket' = [bucket EXCEPT ![Cur.path] =
                             @ \cup Recorded(result, result', FALSE)]
            /\ pc' = AfterFailed
            /\ UNCHANGED text
       ELSE /\ text' = ParseText(dir[Cur.path])
            /\ pc' = "chunk"
            /\ UNCHANGED <<result, bucket>>
    /\ UNCHANGED <<dir, config, points, run, err, idx, chunks, hit, prev>>
    /\ UNCHANGED <<callback, cb_calls, deleted, flaky>>
    /\ UNCHANGED <<evars, rvars, svars, cvars>>

\* lines 94-100: chunk; with a step <= 0 the call never returns
ChunkStep ==
    /\ pc = "chunk"
    /\ ops' = ops \cup {<<Cur.path, "chunk">>}
    /\ IF ChunkDiverges(text, config.chunk_size, config.chunk_overlap)
       THEN pc' = "hung" /\ UNCHANGED chunks
       ELSE /\ chunks' = Chunk(text, Cur.path, Cur.sha256,
                               config.chunk_size, config.chunk_overlap)
            /\ pc' = "embed"
    /\ UNCHANGED <<dir, config, points, run, err, idx, result, text, hit, bucket, prev>>
    /\ UNCHANGED <<callback, cb_calls, deleted, flaky>>
    /\ UNCHANGED <<evars, rvars, svars, cvars>>

\* lines 101-109: the arguments of embed_chunks are evaluated, embed_chunks
\* runs, the vectors are upserted and counted
EmbedStore ==
    /\ pc = "embed"
    /\ IF ~(HasAttr("embedding_batch_size") /\ HasAttr("embedding_workers"))
       THEN /\ pc' = AfterEmbedError
            /\ err' = "embed"
            /\ result' = OnEmbedError(result, Cur.path)
            /\ bucket' = [bucket EXCEPT ![Cur.path] =
                             @ \cup Recorded(result, result', FALSE)]
            /\ UNCHANGED <<points, ops>>
       ELSE \E raises \in BOOLEAN :
              IF raises
              THEN /\ pc' = AfterEmbedError
                   /\ err' = "embed"
                   /\ result' = OnEmbedError(result, Cur.path)
                   /\ bucket' = [bucket EXCEPT ![Cur.path] =
                                    @ \cup Recorded(result, result', FALSE)]
                   /\ ops' = ops \cup {<<Cur.path, "embed_chunks">>}
                   /\ UNCHANGED points
              ELSE LET vs == Flatten([j \in DOMAIN Batches(chunks, config.embedding_batch_size)
                                |-> EmbedBatch(Batches(chunks, config.embedding_batch_size)[j])])
                   IN /\ points' = Upsert(points, chunks, vs)
                      /\ result' = CountIndexed(result, chunks, vs)
                      /\ ops' = ops \cup {<<Cur.path, "embed_chunks">>, <<Cur.path, "upsert">>}
                      /\ bucket' = [bucket EXCEPT ![Cur.path] =
                                       @ \cup Recorded(result, result', TRUE)]
                      /\ pc' = "scan"
                      /\ UNCHANGED err
    /\ UNCHANGED <<dir, config, run, idx, text, chunks, hit, prev>>
    /\ UNCHANGED <<callback, cb_calls, deleted, flaky>>
    /\ UNCHANGED <<evars, rvars, svars, cvars>>

\* run_pipeline is called again on the same directory and collection
Rerun ==
    /\ pc \in {"done", "aborted"}
    /\ run < MaxRuns
    /\ prev' = [pc |-> pc, result |-> result]
    /\ run' = run + 1
    /\ pc' = "idle"
    /\ err' = "none"
    /\ idx' = 0
    /\ result' = PipelineResult
    /\ text' = <<>>
    /\ chunks' = <<>>
    /\ ops' = {}
    /\ hit' = {}
    /\ bucket' = NoBuckets
    /\ cb_calls' = <<>>
    /\ UNCHANGED <<dir, config, points, callback, deleted, flaky>>
    /\ UNCHANGED <<evars, rvars, svars, cvars>>

\* store.delete(doc_id) is called once between two runs for a document of
\* the collection, as the integration test does after its run
DeleteDoc ==
    /\ pc \in {"done", "aborted"}
    /\ run < MaxRuns
    /\ deleted = <<>>
    /\ \E c \in 1..MaxTokens :
         /\ HasDocument(points, Sha256(c))
         /\ points' = Delete(points, Sha256(c))
         /\ deleted' = Append(deleted, [doc_id |-> Sha256(c), run |-> run, before |-> points])
    /\ UNCHANGED <<dir, config, run, pc, err, idx, result, text, chunks, ops, hit, bucket, prev>>
    /\ UNCHANGED <<callback, cb_calls, flaky>>
    /\ UNCHANGED <<evars, rvars, svars, cvars>>

\* a document indexed by an earlier run: one chunk per word, source src
Indexed(pts, c, src) ==
    LET cs == Chunk(ParseText(c), src, Sha256(c), 1, 0)
    IN Upsert(pts, cs, Embed([i \in 1..Len(cs) |-> cs[i].text]))

RECURSIVE StoreOf(_, _)
StoreOf(srcs, c) ==
    IF c = 0 THEN <<>>
    ELSE IF srcs[c] = None THEN StoreOf(srcs, c - 1)
    ELSE Indexed(StoreOf(srcs, c - 1), c, srcs[c])

\* the collections the run may find: any of the text documents indexed
\* earlier, at a path of the tree or at a path that is gone
InitialStores ==
    {StoreOf(srcs, MaxTokens) : srcs \in [1..MaxTokens -> {None, OldPath} \cup Paths]}

EmbedIdle ==
    /\ e_chunks = <<>> /\ e_bs = 1 /\ e_workers = 1 /\ e_pc = "off"
    /\ e_futs = <<>> /\ e_res = <<>> /\ e_order = <<>> /\ e_out = <<>> /\ e_calls = <<>>

\* no embed call, no direct upsert call and no direct chunk call is under way
RetryIdle ==
    /\ r_backend = "local" /\ r_pc = "off" /\ r_outcomes = <<>> /\ r_waits = <<>>
    /\ r_exc = None

StoreIdle ==
    /\ s_cs = <<>> /\ s_vs = <<>> /\ s_prev = <<>> /\ s_n = 0 /\ s_err = FALSE
    /\ s_pc = "off" /\ s_coll = None /\ s_dim = 1 /\ s_created = 0

ChunkIdle ==
    /\ c_text = <<>> /\ c_size = 1 /\ c_overlap = 0 /\ c_pc = "off" /\ c_out = <<>>

\* the inputs of a run: the tree, the configuration and the collection
InitRuns ==
    /\ dir \in [Paths -> Contents \cup {NoFile}]
    /\ config \in ConfigObjects
    /\ points \in InitialStores
    /\ run = 1
    /\ pc = "idle"
    /\ err = "none"
    /\ idx = 0
    /\ result = PipelineResult
    /\ text = <<>>
    /\ chunks = <<>>
    /\ ops = {}
    /\ hit = {}
    /\ bucket = NoBuckets
    /\ prev = [pc |-> "none", result |-> PipelineResult]
    /\ cb_calls = <<>>
    /\ deleted = <<>>
    /\ EmbedIdle
    /\ RetryIdle
    /\ StoreIdle
    /\ ChunkIdle

\* run_pipeline(config): no progress callback, as the tests call it
Init == InitRuns /\ callback = FALSE /\ flaky = FALSE

\* run_pipeline(config, progress_callback), as the CLI calls it, or without;
\* a local model and an overlap below the chunk size, as the CLI's defaults
InitProgress ==
    /\ InitRuns
    /\ ~IsRemoteModel(config.embedding_model)
    /\ config.chunk_overlap < config.chunk_size
    /\ callback \in BOOLEAN
    /\ flaky = FALSE

Next ==
    \/ StartRun
    \/ NextFile
    \/ Finish
    \/ Dedup
    \/ Parse
    \/ ChunkStep
    \/ EmbedStore
    \/ Rerun

Spec == Init /\ [][Next]_vars

SpecProgress == InitProgress /\ [][Next]_vars

\* runs against a server whose read calls may raise, with a local model and
\* an overlap below the chunk size
InitReadFail ==
    /\ InitRuns
    /\ ~IsRemoteModel(config.embedding_model)
    /\ config.chunk_overlap < config.chunk_size
    /\ callback = FALSE
    /\ flaky = TRUE

SpecReadFail == InitReadFail /\ [][Next]_vars

\* runs with a store.delete between them, configured as the integration
\* test configures them
InitDelete ==
    /\ Init
    /\ ~IsRemoteModel(config.embedding_model)
    /\ config.chunk_overlap < config.chunk_size

NextDelete ==
    \/ StartRun
    \/ NextFile
    \/ Finish
    \/ Dedup
    \/ Parse
    \/ ChunkStep
    \/ EmbedStore
    \/ Rerun
    \/ DeleteDoc

SpecDelete == InitDelete /\ [][NextDelete]_vars

\* ---------------------------------------------- embed_chunks, called alone
EBatches == Batches(e_chunks, e_bs)

\* mutant: the batch results are gathered as the workers finish
ResultsAsCompleted(res, order) == [k \in 1..Len(order) |-> res[order[k]]]

\* line 85 and line 87: executor.map and the list comprehension both yield
\* the batch results in the order of the batches
Results(res, order) == res

\* lines 75-83: empty input returns at once; otherwise the batches are cut
\* and the pool or the sequential loop is chosen
ECall ==
    /\ e_pc = "call"
    /\ IF e_chunks = <<>>
       THEN e_out' = <<>> /\ e_pc' = "returned" /\ UNCHANGED <<e_futs, e_res>>
       ELSE /\ e_futs' = [j \in DOMAIN EBatches |-> "pending"]
            /\ e_res' = [j \in DOMAIN EBatches |-> <<>>]
            /\ e_pc' = IF e_workers > 1 /\ Len(EBatches) > 1 THEN "pool" ELSE "seq"
            /\ UNCHANGED e_out
    /\ UNCHANGED <<e_chunks, e_bs, e_workers, e_order, e_calls>>
    /\ UNCHANGED <<pvars, rvars, svars, cvars>>

\* the futures whose embed call is in flight
Running(futs) == {k \in DOMAIN futs : futs[k] = "running"}

\* mutant: the pool runs one thread more than asked for
MaxWorkersPlusOne(workers) == workers + 1

\* line 84: ThreadPoolExecutor(max_workers=workers)
MaxWorkersOf(workers) == workers

\* mutant: the pool is left without waiting for its threads
ShutdownNoWait(futs) == TRUE

\* line 84: leaving the with block is shutdown(wait=True); it returns when
\* no work item is queued or running
Shutdown(futs) == \A k \in DOMAIN futs : futs[k] \notin {"pending", "running"}

\* line 87: the calling thread calls _embed_batch for the next batch
ESeq ==
    /\ e_pc = "seq"
    /\ \E j \in DOMAIN e_futs :
         /\ e_futs[j] = "pending"
         /\ \A k \in 1..(j - 1) : e_futs[k] = "done"
         /\ e_futs' = [e_futs EXCEPT ![j] = "running"]
    /\ UNCHANGED <<e_chunks, e_bs, e_workers, e_pc, e_res, e_order, e_out, e_calls>>
    /\ UNCHANGED <<pvars, rvars, svars, cvars>>

\* lines 81 and 87: that call returns its vectors, or raises and the
\* exception leaves embed_chunks
ESeqDone ==
    /\ e_pc = "seq"
    /\ \E j \in DOMAIN e_futs, raises \in BOOLEAN :
         /\ e_futs[j] = "running"
         /\ e_calls' = Append(e_calls, Texts(EBatches[j]))
         /\ IF raises
            THEN /\ e_futs' = [e_futs EXCEPT ![j] = "failed"]
                 /\ e_pc' = "raised"
                 /\ UNCHANGED <<e_res, e_order>>
            ELSE /\ e_futs' = [e_futs EXCEPT ![j] = "done"]
                 /\ e_res' = [e_res EXCEPT ![j] = EmbedBatch(EBatches[j])]
                 /\ e_order' = Append(e_order, j)
                 /\ UNCHANGED e_pc
    /\ UNCHANGED <<e_chunks, e_bs, e_workers, e_out>>
    /\ UNCHANGED <<pvars, rvars, svars, cvars>>

\* lines 84-85: a free worker thread takes the first queued batch; while the
\* pool is being left a batch not yet cancelled can still be taken
EPoolStart ==
    /\ e_pc \in {"pool", "exit"}
    /\ Cardinality(Running(e_futs)) < MaxWorkersOf(e_workers)
    /\ \E j \in DOMAIN e_futs :
         /\ e_futs[j] = "pending"
         /\ \A k \in 1..(j - 1) : e_futs[k] # "pending"
         /\ e_futs' = [e_futs EXCEPT ![j] = "running"]
    /\ UNCHANGED <<e_chunks, e_bs, e_workers, e_pc, e_res, e_order, e_out, e_calls>>
    /\ UNCHANGED <<pvars, rvars, svars, cvars>>

\* lines 80-81 in a worker thread: some running batch gets its vectors, or
\* its embed call raises and the future keeps the exception
EPoolDone ==
    /\ e_pc \in {"pool", "exit"}
    /\ \E j \in DOMAIN e_futs, raises \in BOOLEAN :
         /\ e_futs[j] = "running"
         /\ e_calls' = Append(e_calls, Texts(EBatches[j]))
         /\ IF raises
            THEN /\ e_futs' = [e_futs EXCEPT ![j] = "failed"]
                 /\ UNCHANGED <<e_res, e_order>>
            ELSE /\ e_futs' = [e_futs EXCEPT ![j] = "done"]
                 /\ e_res' = [e_res EXCEPT ![j] = EmbedBatch(EBatches[j])]
                 /\ e_order' = Append(e_order, j)
    /\ UNCHANGED <<e_chunks, e_bs, e_workers, e_pc, e_out>>
    /\ UNCHANGED <<pvars, rvars, svars, cvars>>

\* line 85: list(executor.map(...)) takes the results in the order of the
\* batches; the first failed one raises in the calling thread
EPoolFail ==
    /\ e_pc = "pool"
    /\ \E j \in DOMAIN e_futs :
         /\ e_futs[j] = "failed"
         /\ \A k \in 1..(j - 1) : e_futs[k] = "done"
    /\ e_pc' = "exit"
    /\ UNCHANGED <<e_chunks, e_bs, e_workers, e_futs, e_res, e_order, e_out, e_calls>>
    /\ UNCHANGED <<pvars, rvars, svars, cvars>>

\* line 85: the iterator of executor.map cancels a future that no worker has
\* taken yet
EPoolCancel ==
    /\ e_pc = "exit"
    /\ \E j \in DOMAIN e_futs :
         /\ e_futs[j] = "pending"
         /\ e_futs' = [e_futs EXCEPT ![j] = "cancelled"]
    /\ UNCHANGED <<e_chunks, e_bs, e_workers, e_pc, e_res, e_order, e_out, e_calls>>
    /\ UNCHANGED <<pvars, rvars, svars, cvars>>

\* line 84: the with block is left with the exception, which then leaves
\* embed_chunks; nothing is returned
ERaise ==
    /\ e_pc = "exit"
    /\ Shutdown(e_futs)
    /\ e_pc' = "raised"
    /\ UNCHANGED <<e_chunks, e_bs, e_workers, e_futs, e_res, e_order, e_out, e_calls>>
    /\ UNCHANGED <<pvars, rvars, svars, cvars>>

\* line 89: every batch has its result; the results are flattened
EReturn ==
    /\ e_pc \in {"seq", "pool"}
    /\ \A j \in DOMAIN e_futs : e_futs[j] = "done"
    /\ e_out' = Flatten(Results(e_res, e_order))
    /\ e_pc' = "returned"
    /\ UNCHANGED <<e_chunks, e_bs, e_workers, e_futs, e_res, e_order, e_calls>>
    /\ UNCHANGED <<pvars, rvars, svars, cvars>>

\* n chunks with distinct texts, as the tests build them
MakeChunks(n) ==
    [i \in 1..n |-> [text |-> <<i>>, source |-> None, doc_id |-> <<>>,
                     chunk_index |-> i - 1, total_chunks |-> n]]

PipelineIdle ==
    /\ dir = [p \in Paths |-> NoFile]
    /\ config \in {c \in ConfigObjects : c.chunk_size = 1 /\ c.chunk_overlap = 0
                                         /\ ~IsRemoteModel(c.embedding_model)}
    /\ points = <<>>
    /\ run = 1 /\ pc = "off" /\ err = "none" /\ idx = 0
    /\ result = PipelineResult
    /\ text = <<>> /\ chunks = <<>>
    /\ ops = {} /\ hit = {} /\ bucket = NoBuckets
    /\ prev = [pc |-> "none", result |-> PipelineResult]
    /\ callback = FALSE
    /\ cb_calls = <<>>
    /\ deleted = <<>>
    /\ flaky = FALSE

InitEmbed ==
    /\ PipelineIdle
    /\ e_chunks \in {MakeChunks(n) : n \in 0..MaxChunks}
    /\ e_bs \in 1..MaxBatch
    /\ e_workers \in 1..MaxWorkers
    /\ e_pc = "call"
    /\ e_futs = <<>> /\ e_res = <<>> /\ e_order = <<>> /\ e_out = <<>> /\ e_calls = <<>>
    /\ RetryIdle
    /\ StoreIdle
    /\ ChunkIdle

NextEmbed ==
    \/ ECall
    \/ ESeq
    \/ ESeqDone
    \/ EPoolStart
    \/ EPoolDone
    \/ EPoolFail
    \/ EPoolCancel
    \/ ERaise
    \/ EReturn

SpecEmbed == InitEmbed /\ [][NextEmbed]_vars

\* ------------------------------------------- embed of the two backends
\* the decorator of OpenAIEmbedder.embed (tenacity)
StopAttempts == 5
WaitMultiplier == 1
WaitMin == 2
WaitMax == 60
ExpBase == 2

Max(a, b) == IF a > b THEN a ELSE b

RECURSIVE Pow(_, _)
Pow(b, k) == IF k = 0 THEN 1 ELSE b * Pow(b, k - 1)

\* the classes named by retry_if_exception_type
Transient == {"RateLimitError", "APIConnectionError", "APITimeoutError"}

\* what one call of the backend can do: return the vectors or raise
Outcomes == {"ok"} \cup Transient \cup {"AuthenticationError", "BadRequestError"}

\* mutant: every exception is retried
RetryIfAny(o) == o # "ok"

\* retry=retry_if_exception_type(...): retry only these exceptions
RetryIf(o) == o \in Transient

\* mutant: one more attempt is allowed
StopLate(n) == n >= StopAttempts + 1

\* stop=stop_after_attempt(5), evaluated after the n-th attempt
Stop(n) == n >= StopAttempts

\* mutant: the exponent is the attempt number
WaitExponentialFromBase(n) ==
    Max(Max(0, WaitMin), Min(WaitMultiplier * Pow(ExpBase, n), WaitMax))

\* wait=wait_exponential(multiplier=1, min=2, max=60), evaluated after the
\* n-th attempt: multiplier * 2 ** (n - 1), clamped to [min, max]
WaitExponential(n) ==
    Max(Max(0, WaitMin), Min(WaitMultiplier * Pow(ExpBase, n - 1), WaitMax))

\* the exception object raised by the n-th attempt
Exc(n, o) == [attempt |-> n, class |-> o]

\* reraise=True: the exception of the last attempt leaves the call, not a
\* RetryError wrapping it
Reraise(n, o) == Exc(n, o)

\* lines 111-122: one attempt of OpenAIEmbedder.embed (the request of line
\* 121) and the decision of the retry decorator on its outcome
OpenAIAttempt ==
    /\ r_backend = "openai"
    /\ r_pc = "try"
    /\ \E o \in Outcomes :
         LET n == Len(r_outcomes) + 1 IN
         /\ r_outcomes' = Append(r_outcomes, o)
         /\ IF o = "ok"
            THEN r_pc' = "returned" /\ UNCHANGED <<r_waits, r_exc>>
            ELSE IF ~RetryIf(o)
            THEN r_pc' = "raised" /\ r_exc' = Exc(n, o) /\ UNCHANGED r_waits
            ELSE IF Stop(n)
            THEN r_pc' = "raised" /\ r_exc' = Reraise(n, o) /\ UNCHANGED r_waits
            ELSE /\ r_pc' = "sleep"
                 /\ r_waits' = Append(r_waits, WaitExponential(n))
                 /\ UNCHANGED r_exc
    /\ UNCHANGED r_backend
    /\ UNCHANGED <<pvars, evars, svars, cvars>>

\* the sleep between two attempts is over
OpenAISleep ==
    /\ r_backend = "openai"
    /\ r_pc = "sleep"
    /\ r_pc' = "try"
    /\ UNCHANGED <<r_backend, r_outcomes, r_waits, r_exc>>
    /\ UNCHANGED <<pvars, evars, svars, cvars>>

\* lines 100-101: LocalEmbedder.embed has no decorator: one call of
\* model.encode, whose exception leaves embed as it is
LocalEmbed ==
    /\ r_backend = "local"
    /\ r_pc = "try"
    /\ \E o \in Outcomes :
         /\ r_outcomes' = Append(r_outcomes, o)
         /\ IF o = "ok"
            THEN r_pc' = "returned" /\ UNCHANGED r_exc
            ELSE r_pc' = "raised" /\ r_exc' = Exc(1, o)
    /\ UNCHANGED <<r_backend, r_waits>>
    /\ UNCHANGED <<pvars, evars, svars, cvars>>

InitRetry ==
    /\ PipelineIdle
    /\ EmbedIdle
    /\ StoreIdle
    /\ ChunkIdle
    /\ r_backend \in {"openai", "local"}
    /\ r_pc = "try"
    /\ r_outcomes = <<>>
    /\ r_waits = <<>>
    /\ r_exc = None

NextRetry ==
    \/ OpenAIAttempt
    \/ OpenAISleep
    \/ LocalEmbed

SpecRetry == InitRetry /\ [][NextRetry]_vars

\* ------------------------------------------------- upsert, called alone
\* stop_after_attempt(3) of QdrantStore.upsert
UpsertAttempts == 3

\* the document ids of the calls: file hashes
SDocs == {Sha256(c) : c \in 1..MaxTokens}

\* the first k chunks of document d, as chunk() numbers them
SChunks(d, k) ==
    [i \in 1..k |-> [text |-> <<i>>, source |-> OldPath, doc_id |-> d,
                     chunk_index |-> i - 1, total_chunks |-> MaxIndex + 1]]

\* the vectors a backend may have produced for one text
SVectors == {Vec(<<1>>), Vec(<<2>>)}

\* the vector dimensions of configurations and collections
Dims == 1..MaxDim

\* lines 44-49: _ensure_collection creates the collection with the
\* configured dimension when it does not exist; an existing collection is
\* taken as it is, its dimension is not looked at
EnsureCollection(coll, dim) == IF coll = None THEN dim ELSE coll

\* lines 35-42: QdrantStore(config); no exception is raised for a
\* collection of another dimension
SConstruct ==
    /\ s_pc = "new"
    /\ \E d \in Dims :
         /\ s_dim' = d
         /\ s_coll' = EnsureCollection(s_coll, d)
         /\ s_created' = IF s_coll = None THEN s_created + 1 ELSE s_created
    /\ s_pc' = "ready"
    /\ UNCHANGED <<s_cs, s_vs, s_prev, s_n, s_err>>
    /\ UNCHANGED <<pvars, evars, rvars, cvars>>

\* lines 51-73: upsert builds one point per (chunk, vector) and hands the
\* points to client.upsert, up to 3 times; when every attempt raises, the
\* last exception leaves the call and the server may or may not have
\* applied a request; the vectors have the configured dimension, and the
\* server rejects them at every attempt when the collection's is another
\* (failed: the attempts that raised; fewer than UpsertAttempts - 1 failures
\* end as UpsertAttempts - 1 do)
SUpsert ==
    /\ pc = "off"
    /\ s_pc = "ready"
    /\ s_n < MaxUpserts
    /\ \E d \in SDocs : \E k \in 1..(MaxIndex + 1) : \E vs \in [1..k -> SVectors] :
       \E failed \in {UpsertAttempts - 1, UpsertAttempts} :
         /\ s_cs' = SChunks(d, k)
         /\ s_vs' = vs
         /\ IF s_dim # s_coll
            THEN s_err' = TRUE /\ points' = points
            ELSE /\ s_err' = (failed = UpsertAttempts)
                 /\ IF failed < UpsertAttempts
                    THEN points' = Upsert(points, SChunks(d, k), vs)
                    ELSE points' \in {points, Upsert(points, SChunks(d, k), vs)}
    /\ s_prev' = points
    /\ s_n' = s_n + 1
    /\ UNCHANGED <<s_pc, s_coll, s_dim, s_created>>
    /\ UNCHANGED <<dir, config, run, pc, err, idx, result, text, chunks, ops, hit, bucket, prev>>
    /\ UNCHANGED <<callback, cb_calls, deleted, flaky>>
    /\ UNCHANGED <<evars, rvars, cvars>>

\* a store is about to be constructed on a server where the collection is
\* absent, or exists with some dimension and some indexed documents
InitStore ==
    /\ PipelineIdle
    /\ EmbedIdle
    /\ RetryIdle
    /\ ChunkIdle
    /\ s_cs = <<>> /\ s_vs = <<>> /\ s_prev = <<>> /\ s_n = 0 /\ s_err = FALSE
    /\ s_pc = "new"
    /\ s_coll \in {None} \cup Dims
    /\ s_dim = 1
    /\ s_created = 0

NextStore ==
    \/ SConstruct
    \/ SUpsert

SpecStore == InitStore /\ [][NextStore]_vars

\* ------------------------------------ upsert, called with any doc_id string
\* doc_id strings of any length up to MaxIdLen, written with two symbols
AnyDocIds == UNION {[1..n -> {0, 1}] : n \in 1..MaxIdLen}

\* a chunk as upsert reads it: metadata doc_id and chunk_index, and a text
AnyChunk(d, k, t) ==
    [text |-> <<t>>, source |-> OldPath, doc_id |-> d,
     chunk_index |-> k, total_chunks |-> k + 1]

\* lines 57-73: upsert is called with the next of the two chunks alone
PUpsert ==
    /\ s_pc = "ids"
    /\ s_n < Len(s_cs)
    /\ points' = Upsert(points, <<s_cs[s_n + 1]>>, <<Vec(s_cs[s_n + 1].text)>>)
    /\ s_prev' = points
    /\ s_n' = s_n + 1
    /\ UNCHANGED <<s_cs, s_vs, s_err, s_pc, s_coll, s_dim, s_created>>
    /\ UNCHANGED <<dir, config, run, pc, err, idx, result, text, chunks, ops, hit, bucket, prev>>
    /\ UNCHANGED <<callback, cb_calls, deleted, flaky>>
    /\ UNCHANGED <<evars, rvars, cvars>>

\* two chunks with any doc_id strings and chunk indexes, on an empty
\* collection
InitPointId ==
    /\ PipelineIdle
    /\ EmbedIdle
    /\ RetryIdle
    /\ ChunkIdle
    /\ s_cs \in {<<AnyChunk(d1, k1, 1), AnyChunk(d2, k2, 2)>> :
                    d1 \in AnyDocIds, d2 \in AnyDocIds,
                    k1 \in 0..MaxPointIndex, k2 \in 0..MaxPointIndex}
    /\ s_vs = <<>> /\ s_prev = <<>> /\ s_n = 0 /\ s_err = FALSE
    /\ s_pc = "ids"
    /\ s_coll = 1 /\ s_dim = 1 /\ s_created = 0

NextPointId == PUpsert

SpecPointId == InitPointId /\ [][NextPointId]_vars

\* --------------------------------------------------- chunk, called alone
\* lines 53-93: chunk returns its list, or never leaves the loop of lines
\* 77-79 when the step is not positive
CChunk ==
    /\ c_pc = "call"
    /\ IF ChunkDiverges(c_text, c_size, c_overlap)
       THEN c_pc' = "hung" /\ UNCHANGED c_out
       ELSE /\ c_out' = Chunk(c_text, OldPath, Sha256(1), c_size, c_overlap)
            /\ c_pc' = "returned"
    /\ UNCHANGED <<c_text, c_size, c_overlap>>
    /\ UNCHANGED <<pvars, evars, rvars, svars>>

InitChunk ==
    /\ PipelineIdle
    /\ EmbedIdle
    /\ RetryIdle
    /\ StoreIdle
    /\ c_text \in {ParseText(n) : n \in 0..MaxTextLen}
    /\ c_size \in 1..MaxSize
    /\ c_overlap \in 0..MaxSize
    /\ c_pc = "call"
    /\ c_out = <<>>

NextChunk == CChunk

SpecChunk == InitChunk /\ [][NextChunk]_vars

\* ================================================================ claims
ScannedPaths == {Scan(dir)[i].path : i \in 1..Len(Scan(dir))}
WorkOps == {"parse", "chunk", "embed_chunks", "upsert"}
ParseFails(p) == ParseRaises(dir[p]) \/ ParseText(dir[p]) = <<>>

\* C1: for every scanned file has_document is called before any parse, chunk,
\* embed_chunks or upsert for that file, and a file whose has_document returned
\* true gets none of them in that run: it is only counted as skipped (and
\* possibly as moved).
C1_DedupFirst ==
    \A p \in Paths :
        /\ \A op \in WorkOps : <<p, op>> \in ops => <<p, "has_document">> \in ops
        /\ p \in hit =>
              /\ \A op \in WorkOps : <<p, op>> \notin ops
              /\ "skipped" \in bucket[p]
              /\ bucket[p] \subseteq {"skipped", "moved"}

C1_Witness ==
    /\ pc = "done"
    /\ \E p \in hit : \E q \in Paths : q > p /\ <<q, "parse">> \in ops

C3_MoveDetected ==
    /\ [][ ( /\ pc = "dedup"
             /\ HasDocument(points, Cur.sha256)
             /\ Cur.path \notin GetSource(points, Cur.sha256) )
           => ( /\ GetSource(points', Cur.sha256) = {Cur.path}
                /\ result'.moved_files = result.moved_files + 1
                /\ result'.total_chunks = result.total_chunks
                /\ result'.total_vectors = result.total_vectors
                /\ DOMAIN points' = DOMAIN points
                /\ \A q \in DOMAIN points : points'[q].vector = points[q].vector ) ]_vars
    /\ [](\A p \in Paths : "moved" \in bucket[p] =>
             \A op \in WorkOps : <<p, op>> \notin ops)

C3_Witness ==
    \E p \in Paths :
        /\ "moved" \in bucket[p]
        /\ dir[p] > 1
        /\ GetSource(points, Sha256(dir[p])) = {p}

\* C4: whatever the batch size, the worker count and the order in which the
\* dispatched batches finish, embed_chunks returns for the i-th chunk the
\* backend's vector of the i-th chunk's text (the result of the sequential run).
C4_OrderPreserved ==
    e_pc = "returned" =>
        e_out = [i \in 1..Len(e_chunks) |-> Vec(e_chunks[i].text)]

C4_Witness ==
    /\ e_pc = "returned"
    /\ e_workers > 1
    /\ \E a \in 1..Len(e_order) : \E b \in 1..Len(e_order) : a < b /\ e_order[a] > e_order[b]

C8_ParseFailure ==
    /\ [][ (pc = "parse" /\ ParseFails(Cur.path))
           => ( /\ result'.failed_files = Append(result.failed_files, Cur.path)
                /\ result'.total_chunks = result.total_chunks
                /\ result'.total_vectors = result.total_vectors
                /\ points' = points
                /\ pc' = "scan" ) ]_vars
    /\ [](\A p \in Paths :
            (<<p, "parse">> \in ops /\ ParseFails(p)) =>
                /\ \A op \in {"chunk", "embed_chunks", "upsert"} : <<p, op>> \notin ops
                /\ Count(result.failed_files, p) = 1)

C8_Witness ==
    /\ pc = "parse"
    /\ Len(result.failed_files) = 1
    /\ ~ParseFails(Cur.path)

C11_RetryCeiling ==
    r_backend = "openai" =>
        /\ Len(r_outcomes) <= 5
        /\ \A k \in 1..(Len(r_outcomes) - 1) : r_outcomes[k] \in Transient
        /\ r_pc = "returned" => r_outcomes[Len(r_outcomes)] = "ok"
        /\ ( /\ Len(r_outcomes) = 5
             /\ r_outcomes[5] \in Transient )
           => ( /\ r_pc = "raised"
                /\ r_exc = [attempt |-> 5, class |-> r_outcomes[5]] )
        /\ ( /\ r_pc \in {"try", "sleep"}
             /\ r_outcomes # <<>> )
           => r_outcomes[Len(r_outcomes)] \in Transient /\ Len(r_outcomes) < 5

C11_Witness ==
    /\ r_backend = "openai"
    /\ r_pc = "raised"
    /\ Len(r_outcomes) = 5
    /\ r_outcomes[1] # r_outcomes[5]

\* C12 as claimed: the waits before the retries are 2, 4, 8, 16.
C12_Claimed ==
    \A k \in 1..Len(r_waits) : r_waits[k] = Pow(2, k)

\* C12 amended: the wait after the k-th failed attempt is 2 ** (k - 1)
\* raised to the minimum of 2, so the waits before the four possible retries
\* are 2, 2, 4, 8; no wait exceeds the cap of 60.
C12_Backoff ==
    /\ Len(r_waits) <= 4
    /\ \A k \in 1..Len(r_waits) :
          /\ r_waits[k] = (IF k = 1 THEN 2 ELSE Pow(2, k - 1))
          /\ r_waits[k] <= 60

C12_Witness == r_waits = <<2, 2, 4, 8>>

\* C13: an error of the remote backend outside the transient classes leaves
\* the call at the attempt that raised it, with no sleep and no further
\* attempt (exactly one attempt when it is the first outcome); any error of
\* the local backend leaves the call after exactly one attempt.
C13_NoRetry ==
    /\ ( /\ r_backend = "openai"
         /\ r_outcomes # <<>>
         /\ r_outcomes[Len(r_outcomes)] \notin Transient \cup {"ok"} )
       => ( /\ r_pc = "raised"
            /\ r_exc = [attempt |-> Len(r_outcomes), class |-> r_outcomes[Len(r_outcomes)]]
            /\ Len(r_waits) = Len(r_outcomes) - 1 )
    /\ ( /\ r_backend = "openai"
         /\ r_outcomes # <<>>
         /\ r_outcomes[1] \notin Transient )
       => Len(r_outcomes) = 1 /\ r_waits = <<>>
    /\ ( /\ r_backend = "local"
         /\ r_outcomes # <<>> )
       => ( /\ Len(r_outcomes) = 1
            /\ r_waits = <<>>
            /\ r_outcomes[1] # "ok" =>
                  r_pc = "raised" /\ r_exc = [attempt |-> 1, class |-> r_outcomes[1]] )

C13_Witness ==
    /\ r_pc = "raised"
    /\ Len(r_outcomes) = 1
    /\ \/ r_backend = "openai" /\ r_outcomes[1] = "AuthenticationError"
       \/ r_backend = "local" /\ r_outcomes[1] = "APITimeoutError"

\* C14: after an upsert call that succeeded, every (doc_id, chunk_index)
\* pair of the call has exactly one stored point, which holds the vector of
\* this call, also when the pair was stored before with another vector; and
\* after any sequence of upserts no two stored points have the same pair.
C14_UpsertIdempotent ==
    /\ (s_n >= 1 /\ ~s_err) =>
          \A i \in 1..Len(s_cs) :
             LET held == {p \in DOMAIN points :
                            /\ points[p].doc_id = s_cs[i].doc_id
                            /\ points[p].chunk_index = s_cs[i].chunk_index}
             IN /\ Cardinality(held) = 1
                /\ \A p \in held : points[p].vector = s_vs[i]
    /\ \A p \in DOMAIN points : \A q \in DOMAIN points :
          ( /\ points[p].doc_id = points[q].doc_id
            /\ points[p].chunk_index = points[q].chunk_index ) => p = q

C14_Witness ==
    /\ s_n = 2
    /\ ~s_err
    /\ DOMAIN points = DOMAIN s_prev
    /\ \E p \in DOMAIN points : points[p].vector # s_prev[p].vector
    /\ \E p \in DOMAIN points : points[p].vector = s_prev[p].vector

\* C15: when embed_chunks has returned for n chunks and batch size b, the
\* backend's embed was called ceil(n/b) times, each time with 1..b texts that
\* are a consecutive slice of the chunk list, every chunk's text was sent
\* exactly once and the result has n vectors; for n = 0 embed was not called
\* and the result is empty.
C15_Batching ==
    e_pc = "returned" =>
        LET n == Len(e_chunks) IN
        /\ Len(e_calls) = (n + e_bs - 1) \div e_bs
        /\ \A k \in 1..Len(e_calls) :
              /\ Len(e_calls[k]) >= 1
              /\ Len(e_calls[k]) <= e_bs
              /\ \E start \in 0..(n - 1) :
                    /\ start + Len(e_calls[k]) <= n
                    /\ \A i \in 1..Len(e_calls[k]) :
                          e_calls[k][i] = e_chunks[start + i].text
        /\ \A i \in 1..n :
              Cardinality({kp \in (1..Len(e_calls)) \X (1..e_bs) :
                              /\ kp[2] <= Len(e_calls[kp[1]])
                              /\ e_calls[kp[1]][kp[2]] = e_chunks[i].text}) = 1
        /\ Len(e_out) = n
        /\ n = 0 => (e_calls = <<>> /\ e_out = <<>>)

C15_Witness ==
    /\ e_pc = "returned"
    /\ Len(e_chunks) = 3
    /\ e_bs = 2
    /\ Len(e_calls) = 2
    /\ Len(e_calls[1]) # Len(e_calls[2])

\* C16: in the list chunk returns, the k-th chunk (from 0) has chunk_index k
\* and every chunk carries total_chunks equal to the length of the list.
C16_ContiguousIndex ==
    c_pc = "returned" =>
        \A k \in 1..Len(c_out) :
            /\ c_out[k].chunk_index = k - 1
            /\ c_out[k].total_chunks = Len(c_out)

C16_Witness == c_pc = "returned" /\ Len(c_out) >= 3 /\ c_overlap >= 1

\* C17: for a text of more than chunk_size tokens and 0 <= chunk_overlap <
\* chunk_size, the windows of the returned chunks contain every token
\* position of the text, the first starts at the first token, the last ends
\* at the last token, and each window starts no later than right after the
\* end of the window before it.
C17_Coverage ==
    (c_pc # "call" /\ Len(c_text) > c_size /\ c_overlap < c_size) =>
        /\ c_pc = "returned"
        /\ \A pos \in 1..Len(c_text) :
              \E k \in 1..Len(c_out) : \E j \in 1..Len(c_out[k].text) :
                  c_out[k].text[j] = pos
        /\ c_out[1].text[1] = 1
        /\ c_out[Len(c_out)].text[Len(c_out[Len(c_out)].text)] = Len(c_text)
        /\ \A k \in 1..(Len(c_out) - 1) :
              c_out[k + 1].text[1] <= c_out[k].text[Len(c_out[k].text)] + 1

C17_Witness ==
    /\ c_pc = "returned"
    /\ Len(c_text) > c_size
    /\ c_overlap = 0
    /\ Len(c_out) >= 2
    /\ Len(c_out[Len(c_out)].text) < c_size

\* C18: for a text of n > chunk_size tokens and step = chunk_size -
\* chunk_overlap >= 1, chunk returns ceil(n/step) windows; window k (from 0)
\* holds the tokens k*step .. k*step + min(chunk_size, n - k*step) - 1, so
\* every window has 1..chunk_size tokens and a window shorter than chunk_size
\* ends at the last token.
C18_SlidingWindow ==
    (c_pc # "call" /\ Len(c_text) > c_size /\ c_size - c_overlap >= 1) =>
        LET n == Len(c_text)
            step == c_size - c_overlap
        IN /\ c_pc = "returned"
           /\ Len(c_out) = (n + step - 1) \div step
           /\ \A k \in 0..(Len(c_out) - 1) :
                 LET w == c_out[k + 1].text
                     len == IF c_size < n - k * step THEN c_size ELSE n - k * step
                 IN /\ w = [j \in 1..len |-> k * step + j]
                    /\ Len(w) >= 1
                    /\ Len(w) <= c_size
                    /\ Len(w) < c_size => w[Len(w)] = n

C18_Witness ==
    /\ c_pc = "returned"
    /\ Len(c_text) = 5
    /\ c_size = 3
    /\ c_overlap = 2
    /\ Len(c_out) = 5

\* C19: for a non-empty text of at most chunk_size tokens, whatever
\* chunk_overlap is, chunk returns exactly one chunk, with chunk_index 0,
\* total_chunks 1 and the input text as its text.
C19_SingleChunk ==
    (c_pc # "call" /\ Len(c_text) >= 1 /\ Len(c_text) <= c_size) =>
        /\ c_pc = "returned"
        /\ Len(c_out) = 1
        /\ c_out[1].chunk_index = 0
        /\ c_out[1].total_chunks = 1
        /\ c_out[1].text = c_text

C19_Witness ==
    /\ c_pc = "returned"
    /\ Len(c_text) = c_size
    /\ c_size >= 2
    /\ c_overlap >= c_size
    /\ Len(c_out) = 1

\* C20: a Config whose chunk_overlap is not below its chunk_size is rejected
\* at construction, so in every run the chunker's step chunk_size -
\* chunk_overlap is at least 1 and no chunk call hangs.
C20_Claimed ==
    /\ pc # "idle" => ( /\ config.chunk_size > 0
                        /\ config.chunk_overlap >= 0
                        /\ config.chunk_size - config.chunk_overlap >= 1 )
    /\ pc # "hung"

\* C21: a store constructed on an existing collection whose dimension
\* differs from config.embedding_dim raises at construction; an absent
\* collection is created once with embedding_dim and an existing one is
\* never recreated.
C21_Claimed ==
    /\ s_pc = "ready" => s_coll = s_dim
    /\ s_created <= 1


C23_Claimed ==
    \A p \in Paths : <<p, "parse">> \in ops => ~ParseRaises(dir[p])

\* C24: reading a setting never fails: building the embedder never ends the
\* run, and a run that ends at the embed step has called embed_chunks with
\* the configured batch size and worker count.
C24_Claimed ==
    /\ err # "build"
    /\ err = "embed" => <<Cur.path, "embed_chunks">> \in ops

\* C25: deletion round trip. Right after store.delete(doc_id) no point of the
\* document is left and the points of every other document are as they were;
\* when a later run on a directory that still holds the file (with text in
\* it) has ended, the document is in the store again.
C25_Claimed ==
    \A i \in 1..Len(deleted) :
        LET d == deleted[i].doc_id
            before == deleted[i].before
        IN /\ run = deleted[i].run =>
                /\ ~HasDocument(points, d)
                /\ \A p \in DOMAIN before :
                     before[p].doc_id # d => (p \in DOMAIN points /\ points[p] = before[p])
           /\ ( /\ run > deleted[i].run
                /\ pc \in {"done", "aborted"}
                /\ HasDocument(before, d)
                /\ \E p \in Paths : dir[p] > 0 /\ Sha256(dir[p]) = d )
              => HasDocument(points, d)

\* C26: termination. For every accepted configuration the chunking loop of
\* every chunk call ends, so no run is ever left inside a call of chunk that
\* does not return.
C26_Claimed ==
    /\ pc = "chunk" => ~ChunkDiverges(text, config.chunk_size, config.chunk_overlap)
    /\ pc \in {"idle", "scan", "dedup", "parse", "chunk", "embed", "done", "aborted"}

\* C27: files are processed one after the other in ascending path order.
\* Only files up to the current one have been touched, every file before the
\* current one has its outcome, the current one has none while its steps are
\* under way, and failed_files lists the failed paths in ascending order.
C27_Sequential ==
    /\ \A i \in 1..(Len(Scan(dir)) - 1) : Scan(dir)[i].path < Scan(dir)[i + 1].path
    /\ \A p \in Paths :
         (\E o \in WorkOps \cup {"has_document", "get_source", "update_source"} : <<p, o>> \in ops)
            => \E i \in 1..idx : Scan(dir)[i].path = p
    /\ \A i \in 1..idx :
         \/ bucket[Scan(dir)[i].path] # {}
         \/ i = idx /\ pc \in {"dedup", "parse", "chunk", "embed", "hung", "aborted"}
    /\ pc \in {"dedup", "parse", "chunk", "embed"} => bucket[Cur.path] = {}
    /\ \A a, b \in 1..Len(result.failed_files) :
         a < b => result.failed_files[a] < result.failed_files[b]

C27_Witness ==
    /\ pc = "done"
    /\ idx = NPaths
    /\ Len(result.failed_files) = NPaths

\* C28: during one embed_chunks call at most `workers` embed calls are in
\* flight; with workers == 1 or a single batch at most one call is in flight
\* and a batch is started only when every batch before it has returned.
C28_BoundedConcurrency ==
    /\ Cardinality(Running(e_futs)) <= e_workers
    /\ (e_workers = 1 \/ Len(EBatches) <= 1) =>
          /\ Cardinality(Running(e_futs)) <= 1
          /\ \A j \in DOMAIN e_futs :
               e_futs[j] \in {"running", "done", "failed"} =>
                  \A k \in 1..(j - 1) : e_futs[k] = "done"

C28_Witness ==
    /\ e_workers >= 2
    /\ Cardinality(Running(e_futs)) = e_workers
    /\ \E j \in DOMAIN e_futs : e_futs[j] = "pending"

\* C29: when embed_chunks has returned or raised, no embed call it started
\* is in flight, also when a batch dispatched to the pool failed while others
\* were running; a call that raised has produced no vector list.
C29_NoCallOutlives ==
    /\ e_pc \in {"returned", "raised"} => Running(e_futs) = {}
    /\ e_pc = "raised" => e_out = <<>>
    /\ e_pc = "returned" => \A j \in DOMAIN e_futs : e_futs[j] = "done"

C29_Witness ==
    /\ e_pc = "raised"
    /\ e_workers > 1
    /\ \E j, k \in DOMAIN e_futs :
         /\ j < k
         /\ e_futs[j] = "failed"
         /\ e_futs[k] = "done"
         /\ \E a, b \in 1..Len(e_calls) :
              a < b /\ e_calls[a] = Texts(EBatches[j]) /\ e_calls[b] = Texts(EBatches[k])

\* C30: resumability. When the previous run aborted at the embed step of a
\* file and the store was not touched in between, a later run that has ended
\* has put every file of the directory through the dedup check, the file of
\* the abort and the files after it included.
C30_Claimed ==
    ( /\ run >= 2
      /\ deleted = <<>>
      /\ prev.pc = "aborted"
      /\ prev.result.total_files >= 1
      /\ pc \in {"done", "aborted"} )
    => \A p \in ScannedPaths : <<p, "has_document">> \in ops

\* C33: steady state. A run that follows a completed run without failed
\* files on the same directory and collection calls neither update_source
\* nor upsert and reports moved_files = 0.
C33_Claimed ==
    ( /\ run >= 2
      /\ deleted = <<>>
      /\ prev.pc = "done"
      /\ prev.result.failed_files = <<>> )
    => /\ result.moved_files = 0
       /\ \A p \in Paths : <<p, "update_source">> \notin ops /\ <<p, "upsert">> \notin ops

\* C34: accounting. Whenever a step leaves the run between two files (or at
\* its end), total_files = skipped_files + len(failed_files) + the number of
\* files upserted so far; and no step of a run makes a counter smaller or
\* takes a path out of failed_files.
C34_Accounting ==
    [][ /\ pc' \in {"scan", "done"} =>
             result'.total_files =
                 result'.skipped_files + Len(result'.failed_files)
                 + Cardinality({p \in Paths : <<p, "upsert">> \in ops'})
        /\ run' = run =>
             /\ result'.total_files >= result.total_files
             /\ result'.skipped_files >= result.skipped_files
             /\ result'.moved_files >= result.moved_files
             /\ result'.total_chunks >= result.total_chunks
             /\ result'.total_vectors >= result.total_vectors
             /\ Len(result'.failed_files) >= Len(result.failed_files)
             /\ SubSeq(result'.failed_files, 1, Len(result.failed_files)) = result.failed_files
      ]_vars

C34_Witness ==
    /\ pc = "scan"
    /\ idx = 2
    /\ result.total_files = 2
    /\ result.skipped_files = 1
    /\ Len(result.failed_files) = 1

\* C35: run_pipeline never deletes. No step of any run takes a point out of
\* the store or changes the doc_id, chunk_index, text or vector of a stored
\* point, so the points of a document whose file is gone or has other
\* content now stay where they are.
C35_NeverDeletes ==
    [][ \A p \in DOMAIN points :
          /\ p \in DOMAIN points'
          /\ points'[p].doc_id = points[p].doc_id
          /\ points'[p].chunk_index = points[p].chunk_index
          /\ points'[p].total_chunks = points[p].total_chunks
          /\ points'[p].text = points[p].text
          /\ points'[p].vector = points[p].vector
      ]_vars

C35_Witness ==
    /\ run = 2
    /\ pc = "done"
    /\ prev.result.moved_files >= 1
    /\ \E p \in DOMAIN points :
         /\ points[p].source = OldPath
         /\ \A q \in Paths : dir[q] = NoFile \/ Sha256(dir[q]) # points[p].doc_id

\* C36: an exception of has_document or get_source aborts the run: the file
\* is not parsed, chunked, embedded or upserted, it is not put into
\* failed_files or counted as skipped, the store is not changed for it and
\* no later file is touched.
C36_ReadFailureAborts ==
    err = "dedup" =>
        /\ pc = "aborted"
        /\ \A op \in WorkOps \cup {"update_source"} : <<Cur.path, op>> \notin ops
        /\ Count(result.failed_files, Cur.path) = 0
        /\ bucket[Cur.path] = {}
        /\ result.total_files = idx
        /\ result.skipped_files + Len(result.failed_files) = idx - 1
        /\ \A q \in ScannedPaths : q > Cur.path =>
              \A op \in WorkOps \cup {"has_document", "get_source", "update_source"} :
                  <<q, op>> \notin ops

C36_Witness ==
    /\ err = "dedup"
    /\ idx = 1
    /\ Len(Scan(dir)) = 2
    /\ <<Cur.path, "get_source">> \in ops

\* C37 as claimed: whatever the doc_id strings, two chunks with different
\* (doc_id, chunk_index) pairs get different point identifiers, so after
\* both have been upserted both are stored.
C37_Claimed ==
    ( /\ s_pc = "ids"
      /\ s_n = 2
      /\ <<s_cs[1].doc_id, s_cs[1].chunk_index>> # <<s_cs[2].doc_id, s_cs[2].chunk_index>> )
    => /\ PointId(s_cs[1]) # PointId(s_cs[2])
       /\ \A i \in 1..2 : \E p \in DOMAIN points :
             /\ points[p].doc_id = s_cs[i].doc_id
             /\ points[p].chunk_index = s_cs[i].chunk_index

\* C37 amended: for doc_id strings of one length (as the hex digests the
\* pipeline uses), two chunks with different (doc_id, chunk_index) pairs get
\* different identifier names, and after both have been upserted each is
\* stored with its own text and vector.
C37_InjectiveOnEqualLength ==
    ( /\ s_pc = "ids"
      /\ s_n = 2
      /\ <<s_cs[1].doc_id, s_cs[1].chunk_index>> # <<s_cs[2].doc_id, s_cs[2].chunk_index>>
      /\ Len(s_cs[1].doc_id) = Len(s_cs[2].doc_id) )
    => /\ PointId(s_cs[1]) # PointId(s_cs[2])
       /\ Cardinality(DOMAIN points) = 2
       /\ \A i \in 1..2 : \E p \in DOMAIN points :
             /\ points[p].doc_id = s_cs[i].doc_id
             /\ points[p].chunk_index = s_cs[i].chunk_index
             /\ points[p].text = s_cs[i].text
             /\ points[p].vector = Vec(s_cs[i].text)

C37_Witness ==
    /\ s_pc = "ids"
    /\ s_n = 2
    /\ s_cs[1].doc_id = s_cs[2].doc_id
    /\ Len(s_cs[1].doc_id) = MaxIdLen
    /\ s_cs[1].chunk_index = 1
    /\ s_cs[2].chunk_index = MaxPointIndex
    /\ Cardinality(DOMAIN points) = 2

\* C39 as claimed: for a text of more than chunk_size tokens and
\* 0 <= chunk_overlap < chunk_size, every chunk after the first holds a token
\* position that no earlier chunk holds.
C39_Claimed ==
    (c_pc = "returned" /\ Len(c_text) > c_size /\ c_overlap < c_size) =>
        \A k \in 2..Len(c_out) :
            \E j \in 1..Len(c_out[k].text) :
                \A e \in 1..(k - 1) : \A i \in 1..Len(c_out[e].text) :
                    c_out[e].text[i] # c_out[k].text[j]

\* C39 amended: under the same conditions chunk returns ceil(n/step) chunks,
\* and a chunk after the first holds a token position that no earlier chunk
\* holds exactly when the chunk before it ends before the last token; the
\* chunks after the first one that reaches the last token are suffixes of
\* it. With chunk_overlap = 0 no chunk is redundant.
C39_RedundantOnlyAfterEnd ==
    (c_pc = "returned" /\ Len(c_text) > c_size /\ c_overlap < c_size) =>
        LET n == Len(c_text)
            step == c_size - c_overlap
            last(k) == c_out[k].text[Len(c_out[k].text)]
            new(k) == \E j \in 1..Len(c_out[k].text) :
                         \A e \in 1..(k - 1) : \A i \in 1..Len(c_out[e].text) :
                             c_out[e].text[i] # c_out[k].text[j]
        IN /\ Len(c_out) = (n + step - 1) \div step
           /\ \A k \in 2..Len(c_out) :
                 /\ new(k) <=> last(k - 1) < n
                 /\ ~new(k) => /\ last(k) = n
                               /\ Len(c_out[k].text) < Len(c_out[k - 1].text)
           /\ c_overlap = 0 => \A k \in 2..Len(c_out) : new(k)

C39_Witness ==
    /\ c_pc = "returned"
    /\ Len(c_text) > c_size
    /\ c_overlap < c_size
    /\ Len(c_out) >= 3
    /\ c_out[Len(c_out) - 1].text[Len(c_out[Len(c_out) - 1].text)] = Len(c_text)
====
